---- MODULE Spec2Model ----
(***************************************************************************)
(* polygon_centroid_cross.py: the centroid of the first polygon of a KML   *)
(* file and the 7-point cross drawn on it.                                 *)
(*                                                                         *)
(* Numbers.  A Python float is modelled by a rational <<num, den>> in      *)
(* lowest terms.  The arithmetic of polygon_centroid rounds every result   *)
(* to the nearest float of MantBits significant bits, ties to even (IEEE   *)
(* 754 round-to-nearest with the 53-bit significand scaled down, so that   *)
(* rounding happens on the small coordinates the model enumerates).        *)
(* Exponent range is not bounded: no overflow, no subnormals.              *)
(***************************************************************************)
EXTENDS Integers, Sequences, FiniteSets, TLC

VARIABLES
    cIn,        \* centroid calls: the vertex list L under test
    cOut,       \* centroid calls: outcome of each call made on L
    pIn,        \* projector calls: the centre (lon, lat) and arm length
    pOffs,      \* projector calls: last meters_to_deg_offsets call and result
    pPath,      \* projector calls: result of cross_path_coords
    pc,         \* main: position in main()
    doc,        \* main: the KML document at kml_path
    name,       \* main: name returned by parse_first_polygon_coords
    coords,     \* main: coords returned by parse_first_polygon_coords
    centroid,   \* main: (lon, lat) returned by polygon_centroid
    stdout,     \* main: lines printed so far
    outFile,    \* main: the *_centroid.kml file, once saved
    calls,      \* main: functions of the core called so far, in order
    status      \* main: process exit status

vars == <<cIn, cOut, pIn, pOffs, pPath, pc, doc, name, coords, centroid,
          stdout, outFile, calls, status>>

cVars == <<cIn, cOut>>
pVars == <<pIn, pOffs, pPath>>
mVars == <<pc, doc, name, coords, centroid, stdout, outFile, calls, status>>

-----------------------------------------------------------------------------
(* Bounds of the model *)

MaxLen == 4         \* longest vertex list handed to polygon_centroid
MantBits == 4       \* significant bits kept by the rounded float arithmetic

-----------------------------------------------------------------------------
(* Exact rationals *)

Abs(i) == IF i < 0 THEN -i ELSE i

RECURSIVE GCD(_, _)
GCD(a, b) == IF b = 0 THEN a ELSE GCD(b, a % b)

Rat(n, d) ==
    IF d = 1 THEN <<n, 1>>
    ELSE LET s == IF d < 0 THEN -1 ELSE 1
             g == GCD(Abs(n), Abs(d))
         IN  <<(s * n) \div g, (s * d) \div g>>

I(i) == <<i, 1>>
Zero == I(0)

RAdd(a, b) ==
    LET g == GCD(a[2], b[2])
    IN  Rat(a[1] * (b[2] \div g) + b[1] * (a[2] \div g), (a[2] \div g) * b[2])
RNeg(a) == <<-a[1], a[2]>>
RSub(a, b) == RAdd(a, RNeg(b))
RMul(a, b) == Rat(a[1] * b[1], a[2] * b[2])
RDiv(a, b) == Rat(a[1] * b[2], a[2] * b[1])
RAbs(a) == <<Abs(a[1]), a[2]>>
RLess(a, b) == a[1] * b[2] < b[1] * a[2]

-----------------------------------------------------------------------------
(* Float arithmetic of polygon_centroid: each operation is the exact       *)
(* result rounded to MantBits significant bits.                            *)

\* n/d > 0 brought into [2^(MantBits-1), 2^MantBits) by powers of two, rounded
\* to an integer there, and scaled back by up/down
RECURSIVE RoundMag(_, _, _, _)
RoundMag(n, d, up, down) ==
    IF n >= d * 2^MantBits THEN RoundMag(n, 2 * d, 2 * up, down)
    ELSE IF n < d * 2^(MantBits - 1) THEN RoundMag(2 * n, d, up, 2 * down)
    ELSE LET q == n \div d
             r == n % d
             m == IF 2 * r > d \/ (2 * r = d /\ q % 2 = 1) THEN q + 1 ELSE q
         IN  Rat(m * up, down)

Round(a) ==
    IF a[2] = 1 /\ Abs(a[1]) <= 2^MantBits THEN a
    ELSE IF a[1] < 0 THEN RNeg(RoundMag(-a[1], a[2], 1, 1))
    ELSE RoundMag(a[1], a[2], 1, 1)

FAdd(a, b) == Round(RAdd(a, b))
FSub(a, b) == Round(RSub(a, b))
FMul(a, b) == Round(RMul(a, b))
FDiv(a, b) == Round(RDiv(a, b))

-----------------------------------------------------------------------------
(* Numbers around the 1e-12 guards.  <<a, b, c>> stands for                *)
(* a * 1e-12 + b + c * 1e12 with a, b, c rationals; every coefficient the  *)
(* model builds is 0 or lies well inside (1e-12, 1e12) in magnitude, so    *)
(* the highest non-zero coefficient decides the sign.                      *)

X(b) == <<Zero, b, Zero>>
EPS == <<I(1), Zero, Zero>>

XAdd(x, y) == <<RAdd(x[1], y[1]), RAdd(x[2], y[2]), RAdd(x[3], y[3])>>
XNeg(x) == <<RNeg(x[1]), RNeg(x[2]), RNeg(x[3])>>
XSub(x, y) == XAdd(x, XNeg(y))
XScale(r, x) == <<RMul(r, x[1]), RMul(r, x[2]), RMul(r, x[3])>>
XSign(x) ==
    LET top == IF x[3] # Zero THEN x[3] ELSE IF x[2] # Zero THEN x[2] ELSE x[1]
    IN  IF top[1] > 0 THEN 1 ELSE IF top[1] < 0 THEN -1 ELSE 0
XLess(x, y) == XSign(XSub(x, y)) < 0
XMax(x, y) == IF XLess(x, y) THEN y ELSE x

-----------------------------------------------------------------------------
(* Outcomes of a call *)

Return(v) == [kind |-> "return", value |-> v]
Raise(e) == [kind |-> "raise", exc |-> e]
NotCalled == [kind |-> "none"]

-----------------------------------------------------------------------------
(* polygon_centroid *)

normalize_keep(crds) == crds

normalize(crds) ==
    IF crds[1] = crds[Len(crds)] THEN SubSeq(crds, 1, Len(crds) - 1) ELSE crds

cross_term(p1, p2) == FSub(FMul(p1[1], p2[2]), FMul(p2[1], p1[2]))

RECURSIVE shoelace_nowrap(_, _)
shoelace_nowrap(pts, k) ==
    IF k = 0 THEN [A |-> Zero, Cx |-> Zero, Cy |-> Zero]
    ELSE IF k = Len(pts) THEN shoelace_nowrap(pts, k - 1)
    ELSE
        LET prev == shoelace_nowrap(pts, k - 1)
            p1 == pts[k]
            p2 == pts[k + 1]
            cross == cross_term(p1, p2)
        IN  [A |-> FAdd(prev.A, cross),
             Cx |-> FAdd(prev.Cx, FMul(FAdd(p1[1], p2[1]), cross)),
             Cy |-> FAdd(prev.Cy, FMul(FAdd(p1[2], p2[2]), cross))]

RECURSIVE shoelace(_, _)
shoelace(pts, k) ==
    IF k = 0 THEN [A |-> Zero, Cx |-> Zero, Cy |-> Zero]
    ELSE
        LET prev == shoelace(pts, k - 1)
            p1 == pts[k]
            p2 == pts[(k % Len(pts)) + 1]
            cross == cross_term(p1, p2)
        IN  [A |-> FAdd(prev.A, cross),
             Cx |-> FAdd(prev.Cx, FMul(FAdd(p1[1], p2[1]), cross)),
             Cy |-> FAdd(prev.Cy, FMul(FAdd(p1[2], p2[2]), cross))]

RECURSIVE float_sum(_, _, _)
float_sum(pts, c, k) ==
    IF k = 0 THEN Zero ELSE FAdd(float_sum(pts, c, k - 1), pts[k][c])

mean_centroid(pts) ==
    LET n == Len(pts)
        sx == float_sum(pts, 1, n)
        sy == float_sum(pts, 2, n)
    IN  IF n = 0 THEN Raise("ZeroDivisionError")
        ELSE Return(<<FDiv(sx, I(n)), FDiv(sy, I(n))>>)

weighted_centroid_abs(A, Cx, Cy) ==
    LET d == FMul(I(6), RAbs(A))
    IN  IF d = Zero THEN Raise("ZeroDivisionError")
        ELSE Return(<<FDiv(Cx, d), FDiv(Cy, d)>>)

weighted_centroid(A, Cx, Cy) ==
    LET d == FMul(I(6), A)
    IN  IF d = Zero THEN Raise("ZeroDivisionError")
        ELSE Return(<<FDiv(Cx, d), FDiv(Cy, d)>>)

signed_area(pts) == FMul(shoelace(pts, Len(pts)).A, Rat(1, 2))

degenerate_never(A) == FALSE

degenerate(A) == XLess(X(RAbs(A)), EPS)

polygon_centroid(crds) ==
    IF Len(crds) = 0 THEN Raise("IndexError")
    ELSE
        LET pts == normalize(crds)
            acc == shoelace(pts, Len(pts))
            A == signed_area(pts)
        IN  IF degenerate(A) THEN mean_centroid(pts)
            ELSE weighted_centroid(A, acc.Cx, acc.Cy)

-----------------------------------------------------------------------------
(* meters_to_deg_offsets and cross_path_coords.  Their arithmetic is kept  *)
(* exact.  cos_deg tabulates math.cos(math.radians(lat_deg)) at the        *)
(* latitudes where it is rational; the float results differ from these by  *)
(* at most a few units in the last place (6.1e-17 at 90 degrees), which    *)
(* falls on the same side of the 1e-12 guard.                              *)

METERS_PER_DEG == 111320

Latitudes == {-90, -60, 0, 60, 90, 120}

cos_deg(lat_deg) ==
    CASE lat_deg = 0 -> I(1)
      [] lat_deg \in {60, -60} -> Rat(1, 2)
      [] lat_deg \in {90, -90} -> Zero
      [] lat_deg \in {120, -120} -> Rat(-1, 2)

\* r / y for a rational r and a y with a single non-zero coefficient
XDivRat(r, y) ==
    CASE y = X(Zero) -> Raise("ZeroDivisionError")
      [] y[1] # Zero /\ y[2] = Zero /\ y[3] = Zero ->
            Return(<<Zero, Zero, RDiv(r, y[1])>>)
      [] y[1] = Zero /\ y[2] # Zero /\ y[3] = Zero ->
            Return(X(RDiv(r, y[2])))

lon_divisor_unclamped(lat_deg) ==
    XScale(I(METERS_PER_DEG), X(cos_deg(lat_deg)))

lon_divisor(lat_deg) ==
    XScale(I(METERS_PER_DEG), XMax(X(cos_deg(lat_deg)), EPS))

meters_to_deg_offsets(lat_deg, east_m, north_m) ==
    LET dlat == X(RDiv(north_m, I(METERS_PER_DEG)))
        dlon == XDivRat(east_m, lon_divisor(lat_deg))
    IN  IF dlon.kind = "raise" THEN dlon
        ELSE Return(<<dlon.value, dlat>>)

cross_path_coords_zigzag(lon, lat, arm_m) ==
    LET offs == meters_to_deg_offsets(lat, arm_m, arm_m)
        c == <<X(I(lon)), X(I(lat))>>
    IN  IF offs.kind = "raise" THEN offs
        ELSE LET north == <<c[1], XAdd(c[2], offs.value[2])>>
                 south == <<c[1], XSub(c[2], offs.value[2])>>
                 east == <<XAdd(c[1], offs.value[1]), c[2]>>
                 west == <<XSub(c[1], offs.value[1]), c[2]>>
             IN  Return(<<c, north, south, west, east, c, c>>)

cross_path_coords(lon, lat, arm_m) ==
    LET offs == meters_to_deg_offsets(lat, arm_m, arm_m)
        c == <<X(I(lon)), X(I(lat))>>
    IN  IF offs.kind = "raise" THEN offs
        ELSE LET north == <<c[1], XAdd(c[2], offs.value[2])>>
                 south == <<c[1], XSub(c[2], offs.value[2])>>
                 east == <<XAdd(c[1], offs.value[1]), c[2]>>
                 west == <<XSub(c[1], offs.value[1]), c[2]>>
             IN  Return(<<c, north, south, c, west, east, c>>)

-----------------------------------------------------------------------------
(* parse_first_polygon_coords.  The document is modelled by what the       *)
(* parser reads from it: whether it parses as XML, whether it holds a      *)
(* Polygon, the Placemark name, and the whitespace-separated tokens of the *)
(* coordinates text, each token being its comma-separated parts.           *)

Num(v) == [numeric |-> TRUE, val |-> v]
Junk == [numeric |-> FALSE, val |-> 0]

NoCoords == [none |-> TRUE, list |-> <<>>]
SomeCoords(l) == [none |-> FALSE, list |-> l]

RECURSIVE parse_tokens(_, _)
parse_tokens(tokens, k) ==
    IF k = 0 THEN <<>>
    ELSE LET prev == parse_tokens(tokens, k - 1)
             parts == tokens[k]
         IN  IF Len(parts) >= 2 /\ parts[1].numeric /\ parts[2].numeric
             THEN Append(prev, <<I(parts[1].val), I(parts[2].val)>>)
             ELSE prev

parse_first_polygon_coords_min2(d) ==
    CASE d.kind = "unreadable" -> Raise("ParseError")
      [] d.kind = "no_polygon" -> Return([name |-> "None", coords |-> NoCoords])
      [] d.kind = "polygon" ->
            LET crds == parse_tokens(d.tokens, Len(d.tokens))
            IN  IF Len(d.tokens) = 0 \/ Len(crds) < 2
                THEN Return([name |-> d.name, coords |-> NoCoords])
                ELSE Return([name |-> d.name, coords |-> SomeCoords(crds)])

parse_first_polygon_coords(d) ==
    CASE d.kind = "unreadable" -> Raise("ParseError")
      [] d.kind = "no_polygon" -> Return([name |-> "None", coords |-> NoCoords])
      [] d.kind = "polygon" ->
            LET crds == parse_tokens(d.tokens, Len(d.tokens))
            IN  IF Len(d.tokens) = 0 \/ Len(crds) < 3
                THEN Return([name |-> d.name, coords |-> NoCoords])
                ELSE Return([name |-> d.name, coords |-> SomeCoords(crds)])

-----------------------------------------------------------------------------
(* main *)

ARM_M == 10

Parse ==
    /\ pc = "start"
    /\ LET r == parse_first_polygon_coords(doc)
       IN  IF r.kind = "raise"
           THEN /\ pc' = "except"
                /\ UNCHANGED <<name, coords>>
           ELSE /\ pc' = "check"
                /\ name' = r.value.name
                /\ coords' = r.value.coords
    /\ UNCHANGED <<doc, centroid, stdout, outFile, calls, status>>

Check ==
    /\ pc = "check"
    /\ pc' = IF coords.none \/ Len(coords.list) = 0 THEN "except" ELSE "centroid"
    /\ UNCHANGED <<doc, name, coords, centroid, stdout, outFile, calls, status>>

Centroid ==
    /\ pc = "centroid"
    /\ calls' = Append(calls, "polygon_centroid")
    /\ LET r == polygon_centroid(coords.list)
       IN  IF r.kind = "raise"
           THEN pc' = "except" /\ UNCHANGED centroid
           ELSE pc' = "print" /\ centroid' = r.value
    /\ UNCHANGED <<doc, name, coords, stdout, outFile, status>>

PrintCentroid ==
    /\ pc = "print"
    /\ stdout' = Append(stdout, <<"centroid", centroid[2], centroid[1]>>)
    /\ pc' = "write"
    /\ UNCHANGED <<doc, name, coords, centroid, outFile, calls, status>>

\* write_cross_linestring when kml_obj.save succeeds; main then returns
WriteSaves ==
    /\ pc = "write"
    /\ calls' = Append(calls, "write_cross_linestring")
    /\ outFile' = <<[name |-> IF name = "" THEN "Centroid cross" ELSE name,
                     center |-> centroid,
                     arm_m |-> ARM_M]>>
    /\ stdout' = Append(stdout, <<"saved">>)
    /\ pc' = "done"
    /\ status' = 0
    /\ UNCHANGED <<doc, name, coords, centroid>>

\* write_cross_linestring when kml_obj.save raises (the directory of
\* kml_path cannot be written)
WriteFails ==
    /\ pc = "write"
    /\ calls' = Append(calls, "write_cross_linestring")
    /\ pc' = "except"
    /\ UNCHANGED <<doc, name, coords, centroid, stdout, outFile, status>>

Except ==
    /\ pc = "except"
    /\ stdout' = Append(stdout, <<"error">>)
    /\ status' = 1
    /\ pc' = "exited"
    /\ UNCHANGED <<doc, name, coords, centroid, outFile, calls>>

-----------------------------------------------------------------------------
(* Inputs *)

MaxTokens == 4      \* most tokens in a coordinates text
MaxMeters == 2      \* largest offset in metres besides the default arm
MaxLon == 1         \* longitudes of the cross centre are -MaxLon..MaxLon

Coord == 0..2
Vertices == {<<I(x), I(y)>> : x \in Coord, y \in Coord}
Square4 == <<<<I(0), I(0)>>, <<I(4), I(0)>>, <<I(4), I(4)>>, <<I(0), I(4)>>>>
Kite == <<<<I(-1), I(-1)>>, <<I(1), I(-2)>>, <<I(3), I(0)>>, <<I(-2), I(1)>>>>
Polygons ==
    UNION {[1..n -> Vertices] : n \in 0..MaxLen} \cup {Square4, Kite}

Meters == (-1..MaxMeters) \cup {ARM_M}
Arms == (1..MaxMeters) \cup {ARM_M}
Centres == [lon : (-MaxLon)..MaxLon, lat : Latitudes, arm_m : Arms]

TokenKinds ==
    {<<Num(0), Num(0)>>, <<Num(1), Num(0)>>, <<Num(0), Num(1)>>,
     <<Num(1), Num(1), Num(7)>>, <<Num(2), Num(0), Junk>>,
     <<Num(5)>>, <<Junk, Num(0)>>, <<Num(0), Junk>>}
TokenLists == UNION {[1..n -> TokenKinds] : n \in 0..MaxTokens}
Names == {"", "Field"}
Docs ==
    {[kind |-> k, name |-> "", tokens |-> <<>>] : k \in {"unreadable", "no_polygon"}}
    \cup [kind : {"polygon"}, name : Names, tokens : TokenLists]

-----------------------------------------------------------------------------
(* Calls of polygon_centroid on a list L, on L closed by its first vertex  *)
(* and on L reversed                                                       *)

Reverse(l) == [i \in 1..Len(l) |-> l[Len(l) + 1 - i]]

CallDirect ==
    /\ cOut.direct.kind = "none"
    /\ cOut' = [cOut EXCEPT !.direct = polygon_centroid(cIn)]
    /\ UNCHANGED <<cIn, pVars, mVars>>

CallClosed ==
    /\ cOut.direct.kind # "none"
    /\ cOut.closed.kind = "none"
    /\ Len(cIn) >= 1
    /\ cOut' = [cOut EXCEPT !.closed = polygon_centroid(Append(cIn, cIn[1]))]
    /\ UNCHANGED <<cIn, pVars, mVars>>

CallReversed ==
    /\ cOut.closed.kind # "none"
    /\ cOut.reversed.kind = "none"
    /\ cOut' = [cOut EXCEPT !.reversed = polygon_centroid(Reverse(cIn))]
    /\ UNCHANGED <<cIn, pVars, mVars>>

(* Calls of the projector *)

CallOffsets ==
    /\ \E e \in Meters, n \in Meters :
          pOffs' = [kind |-> "called", east_m |-> e, north_m |-> n,
                    out |-> meters_to_deg_offsets(pIn.lat, I(e), I(n))]
    /\ UNCHANGED <<pIn, pPath, cVars, mVars>>

CallCrossPath ==
    /\ pPath.kind = "none"
    /\ pPath' = cross_path_coords(pIn.lon, pIn.lat, I(pIn.arm_m))
    /\ UNCHANGED <<pIn, pOffs, cVars, mVars>>

-----------------------------------------------------------------------------
(* Specifications *)

IdleCentroid ==
    /\ cIn = <<>>
    /\ cOut = [direct |-> NotCalled, closed |-> NotCalled, reversed |-> NotCalled]

IdleProjector ==
    /\ pIn = [lon |-> 0, lat |-> 0, arm_m |-> ARM_M]
    /\ pOffs = NotCalled
    /\ pPath = NotCalled

IdleMain ==
    /\ pc = "off"
    /\ doc = [kind |-> "none", name |-> "", tokens |-> <<>>]
    /\ name = ""
    /\ coords = NoCoords
    /\ centroid = <<>>
    /\ stdout = <<>>
    /\ outFile = <<>>
    /\ calls = <<>>
    /\ status = -1

Init ==
    /\ pc = "start"
    /\ doc \in Docs
    /\ name = ""
    /\ coords = NoCoords
    /\ centroid = <<>>
    /\ stdout = <<>>
    /\ outFile = <<>>
    /\ calls = <<>>
    /\ status = -1
    /\ IdleCentroid
    /\ IdleProjector

Next ==
    \/ Parse /\ UNCHANGED <<cVars, pVars>>
    \/ Check /\ UNCHANGED <<cVars, pVars>>
    \/ Centroid /\ UNCHANGED <<cVars, pVars>>
    \/ PrintCentroid /\ UNCHANGED <<cVars, pVars>>
    \/ WriteSaves /\ UNCHANGED <<cVars, pVars>>
    \/ WriteFails /\ UNCHANGED <<cVars, pVars>>
    \/ Except /\ UNCHANGED <<cVars, pVars>>

Spec == Init /\ [][Next]_vars

InitCentroid ==
    /\ cIn \in Polygons
    /\ cOut = [direct |-> NotCalled, closed |-> NotCalled, reversed |-> NotCalled]
    /\ IdleProjector
    /\ IdleMain

NextCentroid == CallDirect \/ CallClosed \/ CallReversed

SpecCentroid == InitCentroid /\ [][NextCentroid]_vars

InitProjector ==
    /\ pIn \in Centres
    /\ pOffs = NotCalled
    /\ pPath = NotCalled
    /\ IdleCentroid
    /\ IdleMain

NextProjector == CallOffsets \/ CallCrossPath

SpecProjector == InitProjector /\ [][NextProjector]_vars

-----------------------------------------------------------------------------
(* Vocabulary of the properties, stated without the operators above *)

\* a vertex list without the trailing repeat of its first vertex
DropClosing(l) ==
    IF Len(l) >= 1 /\ l[1] = l[Len(l)] THEN [i \in 1..(Len(l) - 1) |-> l[i]] ELSE l

IsOpen(l) == Len(l) >= 1 /\ l[1] # l[Len(l)]

Succ(pts, i) == IF i = Len(pts) THEN 1 ELSE i + 1

\* a rational q with |q| < 1e-12, that is |num| * 10^12 < den
BelowEps(q) == Abs(q[1]) <= ((q[2] - 1) \div 1000000) \div 1000000

\* left-to-right float sum of f[1..k]
RECURSIVE SumF(_, _)
SumF(f, k) == IF k = 0 THEN Zero ELSE FAdd(SumF(f, k - 1), f[k])

CrossAt(pts, i) ==
    FSub(FMul(pts[i][1], pts[Succ(pts, i)][2]), FMul(pts[Succ(pts, i)][1], pts[i][2]))

AreaOf(pts) ==
    FMul(Rat(1, 2), SumF([i \in 1..Len(pts) |-> CrossAt(pts, i)], Len(pts)))

MomentOf(pts, c) ==
    SumF([i \in 1..Len(pts) |->
            FMul(FAdd(pts[i][c], pts[Succ(pts, i)][c]), CrossAt(pts, i))], Len(pts))

FormulaCentroid(pts) ==
    LET d == FMul(I(6), AreaOf(pts))
    IN  <<FDiv(MomentOf(pts, 1), d), FDiv(MomentOf(pts, 2), d)>>

MeanOf(pts) ==
    <<FDiv(SumF([i \in 1..Len(pts) |-> pts[i][1]], Len(pts)), I(Len(pts))),
      FDiv(SumF([i \in 1..Len(pts) |-> pts[i][2]], Len(pts)), I(Len(pts)))>>

ZeroArea(l) == BelowEps(AreaOf(DropClosing(l)))

\* exact left-to-right sum of f[1..k], and whether every partial sum is a float
RECURSIVE SumR(_, _)
SumR(f, k) == IF k = 0 THEN Zero ELSE RAdd(SumR(f, k - 1), f[k])

Representable(q) == Round(q) = q

SumsExactly(f) ==
    \A k \in 1..Len(f) : Representable(f[k]) /\ Representable(SumR(f, k))

ExactCross(pts, i) ==
    RSub(RMul(pts[i][1], pts[Succ(pts, i)][2]), RMul(pts[Succ(pts, i)][1], pts[i][2]))

\* no operation of polygon_centroid's loop or of its fallback sums rounds
NoRounding(l) ==
    LET pts == DropClosing(l)
        n == Len(pts)
    IN  /\ \A i \in 1..n :
              /\ Representable(RMul(pts[i][1], pts[Succ(pts, i)][2]))
              /\ Representable(RMul(pts[Succ(pts, i)][1], pts[i][2]))
              /\ \A c \in 1..2 : Representable(RAdd(pts[i][c], pts[Succ(pts, i)][c]))
        /\ SumsExactly([i \in 1..n |-> ExactCross(pts, i)])
        /\ \A c \in 1..2 :
              /\ SumsExactly([i \in 1..n |->
                      RMul(RAdd(pts[i][c], pts[Succ(pts, i)][c]), ExactCross(pts, i))])
              /\ SumsExactly([i \in 1..n |-> pts[i][c]])

\* sign of the turn p -> q -> r
Orient(p, q, r) ==
    LET e == RSub(RMul(RSub(q[1], p[1]), RSub(r[2], p[2])),
                  RMul(RSub(q[2], p[2]), RSub(r[1], p[1])))
    IN  IF e[1] > 0 THEN 1 ELSE IF e[1] < 0 THEN -1 ELSE 0

\* the segments pq and rs lie apart: one of them is strictly on one side of
\* the other's line
Apart(p, q, r, s) ==
    \/ Orient(p, q, r) * Orient(p, q, s) > 0
    \/ Orient(r, s, p) * Orient(r, s, q) > 0

\* a simple polygon: distinct vertices, no three consecutive ones collinear,
\* and edges that do not share a vertex lie apart
SimplePolygon(l) ==
    LET pts == DropClosing(l)
        n == Len(pts)
    IN  /\ n >= 3
        /\ \A i, j \in 1..n : i # j => pts[i] # pts[j]
        /\ \A i \in 1..n :
              Orient(pts[i], pts[Succ(pts, i)], pts[Succ(pts, Succ(pts, i))]) # 0
        /\ \A i, j \in 1..n :
              (i # j /\ Succ(pts, i) # j /\ Succ(pts, j) # i)
                  => Apart(pts[i], pts[Succ(pts, i)], pts[j], pts[Succ(pts, j)])

P(x, y) == <<I(x), I(y)>>
Square2 == <<P(0, 0), P(2, 0), P(2, 2), P(0, 2)>>

-----------------------------------------------------------------------------
(* Properties of polygon_centroid, under SpecCentroid *)

\* C1: a call of polygon_centroid on a list with fewer than 3 vertices left
\* after dropping a trailing repeat of the first vertex ends in a failure and
\* never returns a centroid pair.
C1_TooFewVerticesFail ==
    (cOut.direct.kind # "none" /\ Len(DropClosing(cIn)) < 3)
        => cOut.direct.kind = "raise"

\* C2 as stated: for every L of at least 3 points, open or already closed, of
\* zero area or not, polygon_centroid(L + [L[0]]) returns what
\* polygon_centroid(L) returns.
C2_ClosedEqualsOpen_AnyList ==
    (cOut.closed.kind # "none" /\ Len(cIn) >= 3)
        => cOut.closed = cOut.direct

\* C2 as amended: for every L of at least 3 points that is open, or that is
\* already closed and has |A| >= 1e-12, polygon_centroid(L + [L[0]]) returns
\* what polygon_centroid(L) returns.
C2_ClosedEqualsOpen ==
    (cOut.closed.kind # "none" /\ Len(cIn) >= 3 /\ (IsOpen(cIn) \/ ~ZeroArea(cIn)))
        => cOut.closed = cOut.direct

C2_Witness ==
    /\ cOut.closed.kind = "return"
    /\ cOut.closed = cOut.direct
    /\ Len(cIn) = 4
    /\ ~IsOpen(cIn)
    /\ ~ZeroArea(cIn)

\* C3: for every normalized polygon of n >= 3 vertices with |A| >= 1e-12,
\* A = 0.5 * sum(cross_i), polygon_centroid returns (Cx/(6A), Cy/(6A)) with
\* Cx = sum((x_i + x_{i+1}) * cross_i) and Cy = sum((y_i + y_{i+1}) * cross_i),
\* indices cyclic; the square of side 2 at the origin yields (1,1) and the
\* square of side 4 yields (2,2).
C3_WeightedFormula ==
    (cOut.direct.kind # "none" /\ Len(DropClosing(cIn)) >= 3 /\ ~ZeroArea(cIn))
        => /\ cOut.direct = Return(FormulaCentroid(DropClosing(cIn)))
           /\ cIn = Square2 => cOut.direct = Return(P(1, 1))
           /\ cIn = Square4 => cOut.direct = Return(P(2, 2))

C3_Witness ==
    /\ cIn = Square4
    /\ cOut.direct = Return(P(2, 2))

C5_DegenerateMean ==
    (cOut.direct.kind # "none" /\ Len(cIn) >= 3 /\ ZeroArea(cIn))
        => cOut.direct = Return(MeanOf(DropClosing(cIn)))

C5_Witness ==
    /\ cIn = <<P(0, 0), P(1, 1), P(2, 2)>>
    /\ cOut.direct = Return(P(1, 1))

-----------------------------------------------------------------------------
(* Properties of the projector, under SpecProjector *)

Centre == <<X(I(pIn.lon)), X(I(pIn.lat))>>

\* C6: cross_path_coords returns exactly 7 points, centre, north, south,
\* centre, west, east, centre: points 0, 3 and 6 are (lon, lat); points 1 and
\* 2 have longitude lon and latitudes lat+dLat and lat-dLat; points 4 and 5
\* have latitude lat and longitudes lon-dLon and lon+dLon, with
\* (dLon, dLat) = meters_to_deg_offsets(lat, arm, arm).
C6_CrossPath ==
    pPath.kind # "none" =>
        LET offs == meters_to_deg_offsets(pIn.lat, I(pIn.arm_m), I(pIn.arm_m))
            dLon == offs.value[1]
            dLat == offs.value[2]
            path == pPath.value
        IN  /\ pPath.kind = "return"
            /\ Len(path) = 7
            /\ path[1] = Centre /\ path[4] = Centre /\ path[7] = Centre
            /\ path[2] = <<Centre[1], XAdd(Centre[2], dLat)>>
            /\ path[3] = <<Centre[1], XSub(Centre[2], dLat)>>
            /\ path[5] = <<XSub(Centre[1], dLon), Centre[2]>>
            /\ path[6] = <<XAdd(Centre[1], dLon), Centre[2]>>

C6_Witness ==
    /\ pPath.kind = "return"
    /\ pIn = [lon |-> 1, lat |-> 60, arm_m |-> ARM_M]
    /\ pPath.value[2] = <<X(I(1)), X(Rat(60 * 111320 + 10, 111320))>>
    /\ pPath.value[5] = <<X(Rat(111320 - 20, 111320)), X(I(60))>>

\* east / (111320 * max(c, 1e-12)) for the cosine c
DlonFor(c, east) ==
    IF c[1] > 0 /\ ~BelowEps(c)
    THEN X(RDiv(east, RMul(I(111320), c)))
    ELSE <<Zero, Zero, RDiv(east, I(111320))>>

\* C8: meters_to_deg_offsets(lat, east, north) returns dlat = north/111320
\* whatever lat is and dlon = east/(111320 * max(cos(lat), 1e-12)); at
\* latitude 0 with east = north, dlon = dlat; at latitude 60 dlon is larger
\* than at latitude 0 for the same positive east; at latitude +/-90 the
\* divisor is 111320 * 1e-12 and no division by zero occurs.
C8_Offsets ==
    pOffs.kind # "none" =>
        LET e == pOffs.east_m
            n == pOffs.north_m
            dlon == pOffs.out.value[1]
            dlat == pOffs.out.value[2]
        IN  /\ pOffs.out.kind = "return"
            /\ dlat = X(Rat(n, 111320))
            /\ dlon = DlonFor(cos_deg(pIn.lat), I(e))
            /\ (pIn.lat = 0 /\ e = n) => dlon = dlat
            /\ (pIn.lat = 60 /\ e > 0) =>
                  XLess(meters_to_deg_offsets(0, I(e), I(n)).value[1], dlon)
            /\ pIn.lat \in {90, -90} =>
                  /\ lon_divisor(pIn.lat) = <<I(111320), Zero, Zero>>
                  /\ dlon = <<Zero, Zero, Rat(e, 111320)>>

C8_Witness ==
    /\ pOffs.kind # "none"
    /\ pIn.lat = 90
    /\ pOffs.east_m = ARM_M
    /\ pOffs.out = Return(<<<<Zero, Zero, Rat(10, 111320)>>, X(Rat(pOffs.north_m, 111320))>>)

-----------------------------------------------------------------------------
(* Properties of main, under Spec *)

HasLine(kind) == \E i \in DOMAIN stdout : stdout[i][1] = kind

Called(f) == \E i \in DOMAIN calls : calls[i] = f

Usable(token) == Len(token) >= 2 /\ token[1].numeric /\ token[2].numeric

\* the (lon, lat) pairs of the usable tokens of the document, in order
UsablePoints ==
    LET toks == IF doc.kind = "polygon" THEN SelectSeq(doc.tokens, Usable) ELSE <<>>
    IN  [i \in 1..Len(toks) |-> P(toks[i][1].val, toks[i][2].val)]

\* C7: a run of main that succeeds prints the centroid line and exits
\* normally; a run in which a step fails prints an error line and exits with
\* a non-zero status; the centroid line is printed only in runs that succeed.
C7_MainOutcome ==
    /\ pc = "done" => (HasLine("centroid") /\ ~HasLine("error") /\ status = 0)
    /\ pc = "exited" => (HasLine("error") /\ status = 1)
    /\ HasLine("centroid") => pc \in {"write", "done"}

\* C9: whenever main runs polygon_centroid on what the parser returned, the
\* list without a trailing repeat of its first vertex has at least 3 points.
C9_NormalizedAtLeast3 ==
    Called("polygon_centroid") => Len(DropClosing(coords.list)) >= 3

\* C10: when the document yields fewer than 3 usable points (tokens without
\* two comma-separated numbers are skipped, a third component is ignored),
\* parse_first_polygon_coords returns no coordinate list, main calls neither
\* polygon_centroid nor write_cross_linestring and can only end in the error
\* exit; with 3 or more it returns exactly the usable pairs.
C10_FewPointsNoCore ==
    (pc \notin {"off", "start"} /\ doc.kind \in {"polygon", "no_polygon"}) =>
        IF Len(UsablePoints) < 3
        THEN /\ coords = NoCoords
             /\ calls = <<>>
             /\ outFile = <<>>
             /\ ~HasLine("centroid")
             /\ pc \in {"check", "except", "exited"}
             /\ pc = "exited" => (status = 1 /\ HasLine("error"))
        ELSE coords = SomeCoords(UsablePoints)

C10_Witness ==
    /\ pc = "exited"
    /\ status = 1
    /\ calls = <<>>
    /\ doc.kind = "polygon"
    /\ Len(doc.tokens) = 4
    /\ Len(UsablePoints) = 2
    /\ \E i \in 1..4 : Len(doc.tokens[i]) = 3 /\ Usable(doc.tokens[i])
    /\ \E i \in 1..4 : ~Usable(doc.tokens[i]) /\ Len(doc.tokens[i]) = 2

====
